---- MODULE Spec2Model ----
(***************************************************************************)
(* list2csv: a row-oriented CSV writer whose columns are declared one by   *)
(* one and evaluated per item.  Two variants of the Writer are modelled:   *)
(*   - the package variant, src/src/list2csv/list2csv.py, whose aggregator *)
(*     columns summarise the flagged columns to their left (variables      *)
(*     fields, counters, sink);                                            *)
(*   - the id-based variant, src/src/list2csv.py, whose fields memoise     *)
(*     their value per row number (variables heap, idFields, toAggregate,  *)
(*     rowCount, idSink).                                                  *)
(* The csv module's writerow is the external sink: one appended record per *)
(* call.  hist, last and idLast are history variables: they record what    *)
(* the last call was given and what it observed, and no action reads them  *)
(* to decide what the program does.                                        *)
(***************************************************************************)
EXTENDS Integers, Sequences, FiniteSets, TLC

VARIABLES fields, counters, sink, hist, last,
          heap, idFields, toAggregate, rowCount, idSink, idLast

pkgVars == <<fields, counters, sink, hist, last>>
idVars == <<heap, idFields, toAggregate, rowCount, idSink, idLast>>
vars == <<fields, counters, sink, hist, last,
          heap, idFields, toAggregate, rowCount, idSink, idLast>>

(***************************************************************************)
(* Bounds of the model.                                                    *)
(***************************************************************************)
\* Spec: columns declared on the Writer, and calls of write / write_header
MaxCols == 3
MaxCalls == 2
\* SpecWindow: columns declared, and calls of write
MaxWindowCols == 5
MaxWindowCalls == 2
\* SpecCounters: columns declared, and calls of write
MaxCounterCols == 3
MaxCounterCalls == 2
\* SpecAll: columns declared, calls of write_all, and items in one call
MaxAllCols == 2
MaxAllCalls == 2
MaxItems == 2
\* SpecHeader: columns declared, and calls of write / write_header
MaxHeaderCols == 2
MaxHeaderCalls == 3
\* SpecId: fields of the id-based Writer, and calls of write_row
MaxIdCols == 3
MaxIdCalls == 2

(***************************************************************************)
(* Python values.  Every value is a record of the same shape so that any   *)
(* two can be compared: t is the type, n the int, s the str, q the tuple.  *)
(***************************************************************************)
IntV(n) == [t |-> "int", n |-> n, s |-> "", q |-> <<>>]
StrV(s) == [t |-> "str", n |-> 0, s |-> s, q |-> <<>>]
SeqV(q) == [t |-> "tuple", n |-> 0, s |-> "", q |-> q]
NoneV == [t |-> "None", n |-> 0, s |-> "", q |-> <<>>]

\* the outcome of a call that returns v / that raises exception err
Ok(v) == [ok |-> TRUE, err |-> "", v |-> v]
Raise(err) == [ok |-> FALSE, err |-> err, v |-> <<>>]

Digits == <<"0", "1", "2", "3", "4", "5", "6", "7", "8", "9">>

RECURSIVE NatToStr(_)
NatToStr(n) ==
    IF n < 10 THEN Digits[n + 1]
    ELSE NatToStr(n \div 10) \o Digits[(n % 10) + 1]

\* str(n) of a Python int
IntToStr(n) == IF n < 0 THEN "-" \o NatToStr(-n) ELSE NatToStr(n)

\* repr(v) of an int or a str (the elements of a tuple are shown by repr)
PyRepr(v) ==
    CASE v.t = "int" -> IntToStr(v.n)
      [] v.t = "str" -> "'" \o v.s \o "'"
      [] OTHER -> "None"

RECURSIVE JoinRepr(_)
JoinRepr(q) ==
    IF q = <<>> THEN ""
    ELSE IF Len(q) = 1 THEN PyRepr(q[1])
    ELSE PyRepr(q[1]) \o ", " \o JoinRepr(Tail(q))

\* str(v)
PyStr(v) ==
    CASE v.t = "int" -> IntToStr(v.n)
      [] v.t = "str" -> v.s
      [] v.t = "tuple" ->
            IF Len(v.q) = 1 THEN "(" \o PyRepr(v.q[1]) \o ",)"
            ELSE "(" \o JoinRepr(v.q) \o ")"
      [] OTHER -> "None"

\* data_format.format(v) for the templates in use: '{}' shows str(v), '{:d}'
\* shows an int in decimal, raises ValueError for a str and TypeError for a
\* tuple or None
StrFormat(fmt, v) ==
    CASE fmt = "{}" -> Ok(PyStr(v))
      [] fmt = "{:d}" ->
            IF v.t = "int" THEN Ok(IntToStr(v.n))
            ELSE IF v.t = "str" THEN Raise("ValueError")
            ELSE Raise("TypeError")
      [] OTHER -> Raise("ValueError")

\* header.format(i) of a header template that ends in its placeholder,
\* written here without the placeholder: 'col{}' is "col"
HeaderFormat(header, i) == header \o IntToStr(i)

(***************************************************************************)
(* The items written.  An item is an object with attributes; item 2 has no *)
(* attribute opt, a str where item 1 has an int (tag), and an empty tuple  *)
(* of marks.                                                               *)
(***************************************************************************)
Items == {1, 2}

Attrs(item) ==
    IF item = 1
    THEN [name |-> StrV("a"), score |-> IntV(10), tag |-> IntV(7), opt |-> IntV(3),
          marks |-> SeqV(<<IntV(1), IntV(2)>>)]
    ELSE [name |-> StrV("b"), score |-> IntV(20), tag |-> StrV("x"),
          marks |-> SeqV(<<>>)]

\* operator.attrgetter(name)(item)
AttrGetter(name, item) ==
    IF name \in DOMAIN Attrs(item) THEN Ok(Attrs(item)[name])
    ELSE Raise("AttributeError")

RECURSIVE SumInts(_)
SumInts(q) == IF q = <<>> THEN 0 ELSE q[1].n + SumInts(Tail(q))

\* the builtin sum over a list of values
PySum(q) ==
    IF \A i \in 1..Len(q) : q[i].t = "int" THEN Ok(IntV(SumInts(q)))
    ELSE Raise("TypeError")

\* the range object range(start, stop), as <<start, stop>>
RangeLen(r) == IF r[2] > r[1] THEN r[2] - r[1] ELSE 0
RangeSeq(r) == [i \in 1..RangeLen(r) |-> r[1] + i - 1]

\* the concatenation of a sequence of sequences
RECURSIVE Flatten(_)
Flatten(ss) == IF ss = <<>> THEN <<>> ELSE Head(ss) \o Flatten(Tail(ss))

(***************************************************************************)
(* The package variant: src/src/list2csv/list2csv.py                       *)
(***************************************************************************)

\* _Column.__init__: a str evaluator becomes attrgetter(str), a callable is kept
Normalise(function) ==
    IF function.isStr THEN [call |-> "attrgetter", arg |-> function.name]
    ELSE [call |-> function.name, arg |-> ""]

\* self.function(x): x is the item, or the aggregate values for an aggregator
Call(function, x) ==
    CASE function.call = "attrgetter" -> AttrGetter(function.arg, x)
      [] function.call = "sum" -> PySum(x)
      [] OTHER -> Raise("TypeError")

\* the column objects; range_ and ref are only read for the kind that has them
\* (ref is the counter object of a _Counter, an index into counters)
NewColumn(header, function, data_format, aggregate) ==
    [kind |-> "_Column", header |-> header, function |-> Normalise(function),
     data_format |-> data_format, aggregate |-> aggregate,
     range_ |-> <<0, 0>>, ref |-> 0]

NewMultiColumn(header, function, range_, data_format, aggregate) ==
    [NewColumn(header, function, data_format, aggregate)
        EXCEPT !.kind = "_MultiColumn", !.range_ = range_]

NewAggregator(header, aggregator, data_format) ==
    [NewColumn(header, aggregator, data_format, FALSE)
        EXCEPT !.kind = "_Aggregator"]

NewCounter(header, ref) ==
    [NewColumn(header, [isStr |-> TRUE, name |-> ""], "{}", FALSE)
        EXCEPT !.kind = "_Counter", !.ref = ref]

NewCounterState(start, step) == [current |-> start, step |-> step]

\* mutant of header: a multi-column gives its header template as its one label
headerSingle(field) == <<field.header>>

\* field.header
header(field) ==
    IF field.kind = "_MultiColumn"
    THEN [i \in 1..RangeLen(field.range_) |->
            HeaderFormat(field.header, RangeSeq(field.range_)[i])]
    ELSE <<field.header>>

\* mutant of MultiEval: only too few values are refused
MultiEvalFewer(field, item) ==
    LET data == Call(field.function, item)
    IN  IF ~data.ok THEN data
        ELSE IF data.v.t # "tuple" THEN Raise("TypeError")
        ELSE IF Len(data.v.q) < RangeLen(field.range_) THEN Raise("ValueError")
        ELSE Ok(data.v.q)

\* _MultiColumn.eval
MultiEval(field, item) ==
    LET data == Call(field.function, item)
    IN  IF ~data.ok THEN data
        ELSE IF data.v.t # "tuple" THEN Raise("TypeError")
        ELSE IF Len(data.v.q) # RangeLen(field.range_) THEN Raise("ValueError")
        ELSE Ok(data.v.q)

\* field.eval(x): the list of raw values of the column
eval(field, cs, x) ==
    CASE field.kind = "_Counter" -> Ok(<<IntV(cs[field.ref].current)>>)
      [] field.kind = "_MultiColumn" -> MultiEval(field, x)
      [] OTHER ->
            LET r == Call(field.function, x)
            IN  IF r.ok THEN Ok(<<r.v>>) ELSE r

RECURSIVE FormatEach(_, _)
FormatEach(data_format, data) ==
    IF data = <<>> THEN Ok(<<>>)
    ELSE LET one == StrFormat(data_format, data[1])
             rest == FormatEach(data_format, Tail(data))
         IN  IF ~one.ok THEN one
             ELSE IF ~rest.ok THEN rest
             ELSE Ok(<<one.v>> \o rest.v)

\* field.format(data): the display strings of the column
format(field, cs, data) ==
    CASE field.kind = "_Counter" -> Ok(<<IntToStr(cs[field.ref].current)>>)
      [] field.kind = "_MultiColumn" -> FormatEach(field.data_format, data)
      [] OTHER ->
            LET r == StrFormat(field.data_format, data[1])
            IN  IF r.ok THEN Ok(<<r.v>>) ELSE r

\* _Counter.increment
increment(counter) == [counter EXCEPT !.current = @ + counter.step]

\* mutant of NextAggregate: an aggregator does not empty the aggregate values
NextAggregateCumulative(field, aggregate_values, value) ==
    IF field.aggregate THEN aggregate_values \o value ELSE aggregate_values

\* Writer.write, lines 110-117: the aggregate values after a column's evaluation
NextAggregate(field, aggregate_values, value) ==
    LET kept == IF field.kind = "_Aggregator" THEN <<>> ELSE aggregate_values
    IN  IF field.aggregate THEN kept \o value ELSE kept

\* Writer.write, the loop over self._fields from column i on.  row is the row
\* so far; given collects, for the history, what each aggregator was given,
\* and at is the column that raised (0: none).
RECURSIVE write_loop(_, _, _, _, _, _)
write_loop(w, item, i, aggregate_values, row, given) ==
    IF i > Len(w.fields)
    THEN [ok |-> TRUE, err |-> "", at |-> 0, row |-> row, given |-> given]
    ELSE
    LET field == w.fields[i]
        isAgg == field.kind = "_Aggregator"
        value == IF isAgg THEN eval(field, w.counters, aggregate_values)
                 ELSE eval(field, w.counters, item)
        given1 == IF isAgg THEN Append(given, aggregate_values) ELSE given
    IN  IF ~value.ok
        THEN [ok |-> FALSE, err |-> value.err, at |-> i, row |-> row, given |-> given1]
        ELSE
        LET out == format(field, w.counters, value.v)
        IN  IF ~out.ok
            THEN [ok |-> FALSE, err |-> out.err, at |-> i, row |-> row, given |-> given1]
            ELSE write_loop(w, item, i + 1,
                            NextAggregate(field, aggregate_values, value.v),
                            row \o out.v, given1)

\* mutant of write_finish: every counter advances by the first counter's step
write_finish_shared_step(w, row) ==
    [w EXCEPT !.counters = [i \in DOMAIN w.counters |->
                              [w.counters[i] EXCEPT !.current = @ + w.counters[1].step]],
              !.sink = Append(@, row)]

\* Writer.write, lines 119-121, reached when the loop ran to its end
write_finish(w, row) ==
    [w EXCEPT !.counters = [i \in DOMAIN w.counters |-> increment(w.counters[i])],
              !.sink = Append(@, row)]

\* mutants of write_abort: the counters advance in a finally clause; the row
\* so far is written in a finally clause
write_abort_increment(w, row) ==
    [w EXCEPT !.counters = [i \in DOMAIN w.counters |-> increment(w.counters[i])]]
write_abort_flush(w, row) == [w EXCEPT !.sink = Append(@, row)]

\* Writer.write when a column raised: the exception leaves the method from
\* inside the loop, and row (the row so far) is dropped
write_abort(w, row) == w

\* Writer.write, after the loop over the columns ended with outcome r
write_end(w, r) ==
    [w |-> IF r.ok THEN write_finish(w, r.row) ELSE write_abort(w, r.row),
     ok |-> r.ok, err |-> r.err, at |-> r.at, given |-> r.given]

\* Writer.write
write(w, item) == write_end(w, write_loop(w, item, 1, <<>>, <<>>, <<>>))

\* the labels of every column, in the order of self._fields
HeaderRow(fs) == Flatten([i \in DOMAIN fs |-> header(fs[i])])

\* mutant of write_header: the labels are written by the first call only, and
\* a later call writes an empty record
write_header_once(w) ==
    IF \E k \in DOMAIN w.sink : w.sink[k] = HeaderRow(w.fields)
    THEN [w EXCEPT !.sink = Append(@, <<>>)]
    ELSE [w EXCEPT !.sink = Append(@, HeaderRow(w.fields))]

\* Writer.write_header
write_header(w) == [w EXCEPT !.sink = Append(@, HeaderRow(w.fields))]

\* Writer.write_all, one turn of the for loop: write(item) returned or raised
\* with outcome r, `before` being the outcome of the turns before it
write_all_next(before, r) ==
    IF r.ok THEN [before EXCEPT !.w = r.w, !.left = @ - 1]
    ELSE [w |-> r.w, ok |-> FALSE, err |-> r.err, at |-> r.at, given |-> r.given,
          left |-> before.left]

\* mutant of write_all_turn: the loop goes on after an item on which write raised
write_all_turn_skip(before, item) ==
    [before EXCEPT !.w = write(before.w, item).w, !.left = @ - 1]

\* Writer.write_all, one turn of the for loop; no turn is taken once write raised
write_all_turn(before, item) ==
    IF ~before.ok THEN before ELSE write_all_next(before, write(before.w, item))

\* Writer.write_all.  loop[n] is the outcome of the first n turns of the for
\* loop; left is the number of items not written, the failing one included.
write_all(w, items) ==
    LET loop[n \in 0..Len(items)] ==
            IF n = 0
            THEN [w |-> w, ok |-> TRUE, err |-> "", at |-> 0, given |-> <<>>,
                  left |-> Len(items)]
            ELSE write_all_turn(loop[n - 1], items[n])
    IN  loop[Len(items)]

\* Writer.add_column
add_column(w, h, function, data_format, aggregate) ==
    [w EXCEPT !.fields = Append(@, NewColumn(h, function, data_format, aggregate))]

\* Writer.add_multi_column
add_multi_column(w, h, function, range_, data_format, aggregate) ==
    [w EXCEPT !.fields =
        Append(@, NewMultiColumn(h, function, range_, data_format, aggregate))]

\* Writer.add_counter
add_counter(w, h, start, step) ==
    [w EXCEPT !.counters = Append(@, NewCounterState(start, step)),
              !.fields = Append(@, NewCounter(h, Len(w.counters) + 1))]

\* Writer.add_aggregator
add_aggregator(w, h, aggregator, data_format) ==
    [w EXCEPT !.fields = Append(@, NewAggregator(h, aggregator, data_format))]

(***************************************************************************)
(* The package Writer as a state machine.  An action is one call of a      *)
(* public method.  Each specification below draws the calls' arguments     *)
(* from a scenario sc: the bounds on the columns declared and on the calls *)
(* made, whether columns may still be declared once a call was made, and   *)
(* the sets the arguments come from.                                       *)
(***************************************************************************)

\* the Writer object: self._fields, self._counters (the counter objects, in
\* the order add_counter registered them) and the records given to writerow
Writer == [fields |-> fields, counters |-> counters, sink |-> sink]

Install(w) ==
    /\ fields' = w.fields
    /\ counters' = w.counters
    /\ sink' = w.sink

\* arguments of add_column: the four attributes of the items
ScoreCol == [h |-> "Score", f |-> "score", fmt |-> "{}", aggregate |-> TRUE]
NameCol == [h |-> "Name", f |-> "name", fmt |-> "{}", aggregate |-> FALSE]
TagCol == [h |-> "Tag", f |-> "tag", fmt |-> "{:d}", aggregate |-> FALSE]
OptCol == [h |-> "Opt", f |-> "opt", fmt |-> "{}", aggregate |-> TRUE]
\* arguments of add_multi_column: range(1, 3) and the empty range(0, 0)
MarksCols == [h |-> "col", f |-> "marks", range_ |-> <<1, 3>>, aggregate |-> TRUE]
NoCols == [h |-> "m", f |-> "marks", range_ |-> <<0, 0>>, aggregate |-> FALSE]
\* arguments of add_counter: the defaults, and another start and step
Counter01 == [start |-> 0, step |-> 1]
Counter52 == [start |-> 5, step |-> 2]

\* every list of at most n items
ItemLists(n) == UNION { [1..m -> Items] : m \in 0..n }

NoHeader == [n |-> 0, row |-> <<>>]

CanDeclare(sc) == Len(fields) < sc.maxCols /\ (sc.late \/ hist.calls = 0)
CanCall(sc) == hist.calls < sc.maxCalls

\* history of a declaration; a header written before it is of another registry
Declared(op) ==
    /\ last' = [op |-> op, items |-> <<>>, ok |-> TRUE, err |-> "", at |-> 0,
                given |-> <<>>, left |-> 0, pre |-> counters]
    /\ UNCHANGED idVars

\* history of the write calls: every counter has seen `tried` more calls of
\* write, of which `rows` wrote a row
Called(tried, rows) ==
    [hist EXCEPT !.calls = @ + 1,
                 !.ctr = [i \in DOMAIN @ |->
                            [@[i] EXCEPT !.calls = @ + tried, !.rows = @ + rows]]]

Init ==
    /\ fields = <<>>
    /\ counters = <<>>
    /\ sink = <<>>
    /\ hist = [calls |-> 0, ctr |-> <<>>, hdr |-> NoHeader]
    /\ last = [op |-> "init", items |-> <<>>, ok |-> TRUE, err |-> "", at |-> 0,
               given |-> <<>>, left |-> 0, pre |-> <<>>]
    /\ heap = <<>>
    /\ idFields = <<>>
    /\ toAggregate = [id \in {"g"} |-> <<>>]
    /\ rowCount = 0
    /\ idSink = <<>>
    /\ idLast = [op |-> "init", item |-> 0, ok |-> TRUE, err |-> "", calls |-> 0]

AddColumn(sc) ==
    /\ CanDeclare(sc)
    /\ \E a \in sc.columns :
        Install(add_column(Writer, a.h, [isStr |-> TRUE, name |-> a.f], a.fmt, a.aggregate))
    /\ hist' = [hist EXCEPT !.hdr = NoHeader]
    /\ Declared("add_column")

AddMultiColumn(sc) ==
    /\ CanDeclare(sc)
    /\ \E a \in sc.multis :
        Install(add_multi_column(Writer, a.h, [isStr |-> TRUE, name |-> a.f],
                                 a.range_, "{}", a.aggregate))
    /\ hist' = [hist EXCEPT !.hdr = NoHeader]
    /\ Declared("add_multi_column")

AddCounter(sc) ==
    /\ CanDeclare(sc)
    /\ \E a \in sc.counters :
        /\ Install(add_counter(Writer, "ID", a.start, a.step))
        /\ hist' = [hist EXCEPT !.hdr = NoHeader,
                                !.ctr = Append(@, [start |-> a.start, calls |-> 0, rows |-> 0])]
    /\ Declared("add_counter")

AddAggregator(sc) ==
    /\ CanDeclare(sc)
    /\ Install(add_aggregator(Writer, "Total", [isStr |-> FALSE, name |-> "sum"], "{}"))
    /\ hist' = [hist EXCEPT !.hdr = NoHeader]
    /\ Declared("add_aggregator")

\* the Writer is w after write_header returned
WroteHeader(w) ==
    /\ Install(w)
    /\ hist' = [hist EXCEPT !.calls = @ + 1,
                            !.hdr = [n |-> @.n + 1,
                                     row |-> IF @.n = 0 THEN w.sink[Len(w.sink)]
                                             ELSE @.row]]
    /\ last' = [op |-> "write_header", items |-> <<>>, ok |-> TRUE, err |-> "", at |-> 0,
                given |-> <<>>, left |-> 0, pre |-> counters]

WriteHeader(sc) ==
    /\ CanCall(sc)
    /\ WroteHeader(write_header(Writer))
    /\ UNCHANGED idVars

\* write(item) returned or raised with outcome r
Wrote(item, r) ==
    /\ Install(r.w)
    /\ hist' = Called(1, IF r.ok THEN 1 ELSE 0)
    /\ last' = [op |-> "write", items |-> <<item>>, ok |-> r.ok, err |-> r.err,
                at |-> r.at, given |-> r.given,
                left |-> IF r.ok THEN 0 ELSE 1, pre |-> counters]

Write(sc) ==
    /\ CanCall(sc)
    /\ \E item \in Items : Wrote(item, write(Writer, item))
    /\ UNCHANGED idVars

\* write_all(items) returned or raised with outcome r
WroteAll(items, r) ==
    /\ Install(r.w)
    /\ hist' = Called(Len(items) - r.left + (IF r.ok THEN 0 ELSE 1),
                      Len(items) - r.left)
    /\ last' = [op |-> "write_all", items |-> items, ok |-> r.ok, err |-> r.err,
                at |-> r.at, given |-> r.given, left |-> r.left, pre |-> counters]

WriteAll(sc) ==
    /\ CanCall(sc)
    /\ \E items \in ItemLists(sc.maxItems) : WroteAll(items, write_all(Writer, items))
    /\ UNCHANGED idVars

\* Spec: columns of every kind, declared before the first call
Rows ==
    [maxCols |-> MaxCols, maxCalls |-> MaxCalls, late |-> FALSE,
     columns |-> {ScoreCol, TagCol, OptCol}, multis |-> {MarksCols, NoCols},
     counters |-> {Counter01, Counter52}]

Next ==
    \/ AddColumn(Rows)
    \/ AddMultiColumn(Rows)
    \/ AddCounter(Rows)
    \/ AddAggregator(Rows)
    \/ WriteHeader(Rows)
    \/ Write(Rows)

Spec == Init /\ [][Next]_vars

\* SpecWindow: long registries around aggregators, declared before the first call
Window ==
    [maxCols |-> MaxWindowCols, maxCalls |-> MaxWindowCalls, late |-> FALSE,
     columns |-> {ScoreCol, NameCol}, multis |-> {MarksCols}, counters |-> {Counter01}]

NextWindow ==
    \/ AddColumn(Window)
    \/ AddMultiColumn(Window)
    \/ AddCounter(Window)
    \/ AddAggregator(Window)
    \/ Write(Window)

SpecWindow == Init /\ [][NextWindow]_vars

\* SpecCounters: counters declared at any time, also between two rows
Counting ==
    [maxCols |-> MaxCounterCols, maxCalls |-> MaxCounterCalls, late |-> TRUE,
     columns |-> {TagCol}, counters |-> {Counter01, Counter52}]

NextCounters ==
    \/ AddColumn(Counting)
    \/ AddCounter(Counting)
    \/ AddAggregator(Counting)
    \/ Write(Counting)

SpecCounters == Init /\ [][NextCounters]_vars

\* SpecAll: write_all over every list of items
Batch ==
    [maxCols |-> MaxAllCols, maxCalls |-> MaxAllCalls, late |-> FALSE,
     maxItems |-> MaxItems,
     columns |-> {ScoreCol}, multis |-> {MarksCols}, counters |-> {Counter52}]

NextAll ==
    \/ AddColumn(Batch)
    \/ AddMultiColumn(Batch)
    \/ AddCounter(Batch)
    \/ WriteAll(Batch)

SpecAll == Init /\ [][NextAll]_vars

\* SpecHeader: headers written at any time, columns declared at any time
Heading ==
    [maxCols |-> MaxHeaderCols, maxCalls |-> MaxHeaderCalls, late |-> TRUE,
     columns |-> {ScoreCol}, multis |-> {MarksCols}, counters |-> {Counter01}]

NextHeader ==
    \/ AddColumn(Heading)
    \/ AddMultiColumn(Heading)
    \/ AddCounter(Heading)
    \/ WriteHeader(Heading)
    \/ Write(Heading)

SpecHeader == Init /\ [][NextHeader]_vars

(***************************************************************************)
(* Properties of the package variant.                                      *)
(***************************************************************************)

\* the number of display strings of a column, and the place of a column's
\* first display string in a row
Width(field) == IF field.kind = "_MultiColumn" THEN RangeLen(field.range_) ELSE 1

RECURSIVE Offset(_, _)
Offset(fs, i) == IF i <= 1 THEN 0 ELSE Offset(fs, i - 1) + Width(fs[i - 1])

LastRecord == sink[Len(sink)]

\* the positions of the aggregators in a registry
AggIndex(fs) ==
    SelectSeq([i \in 1..Len(fs) |-> i], LAMBDA i : fs[i].kind = "_Aggregator")

\* what a column declared with aggregate=True adds for an item
Contribution(field, item) ==
    IF ~field.aggregate THEN <<>>
    ELSE IF field.kind = "_Column" THEN <<Attrs(item)[field.function.arg]>>
    ELSE IF field.kind = "_MultiColumn" THEN Attrs(item)[field.function.arg].q
    ELSE <<>>

\* the values of the flagged columns between the (m-1)-th aggregator (or the
\* start of the row) and the m-th
WindowOf(fs, item, m) ==
    LET idx == AggIndex(fs)
        lo == IF m = 1 THEN 0 ELSE idx[m - 1]
    IN  Flatten([j \in 1..(idx[m] - lo - 1) |-> Contribution(fs[lo + j], item)])

\* C1: every aggregator that write(item) evaluates is given exactly the raw
\* values, in registry order, of the flagged Simple and Multi columns declared
\* between the previous aggregator (or the start of the row) and itself; a
\* write that succeeds evaluates every aggregator.
C1_AggregatorWindow ==
    last.op = "write" =>
        /\ Len(last.given) <= Len(AggIndex(fields))
        /\ last.ok => Len(last.given) = Len(AggIndex(fields))
        /\ \A m \in 1..Len(last.given) :
              last.given[m] = WindowOf(fields, last.items[1], m)

\* C1: [A(aggregate), B(aggregate), Agg1, C(aggregate), Agg2], written for
\* item 2 after an earlier call: Agg1 is given [A, B] and Agg2 is given [C]
C1_Witness ==
    /\ last.op = "write" /\ last.ok /\ last.items = <<2>> /\ hist.calls = 2
    /\ [i \in 1..Len(fields) |-> fields[i].kind]
         = <<"_Column", "_Column", "_Aggregator", "_Column", "_Aggregator">>
    /\ \A i \in {1, 2, 4} : fields[i].aggregate
    /\ last.given = << <<IntV(20), IntV(20)>>, <<IntV(20)>> >>

\* the one counter of the Writer, and the value it holds when a call begins
TheCounter == CHOOSE i \in 1..Len(fields) : fields[i].kind = "_Counter"

\* C2 as stated: with a single counter declared start=s, step=k, the counter's
\* value in the i-th write call since its declaration is s+(i-1)k, whether or
\* not earlier calls failed.
C2_Original ==
    (last.op = "write" /\ Len(counters) = 1) =>
        last.pre[1].current
            = hist.ctr[1].start + (hist.ctr[1].calls - 1) * counters[1].step

\* C2 amended: with a single counter declared start=s, step=k, the counter's
\* value in a write call is s+mk, where m is the number of earlier write calls
\* since its declaration that wrote a row, and that is the value the row of a
\* successful call carries; the other columns matter only through the calls
\* they make fail.
C2_CounterSequence ==
    (last.op = "write" /\ Len(counters) = 1) =>
        LET before == hist.ctr[1].rows - (IF last.ok THEN 1 ELSE 0)
            value == hist.ctr[1].start + before * counters[1].step
        IN  /\ last.pre[1].current = value
            /\ last.ok => LastRecord[Offset(fields, TheCounter) + 1] = IntToStr(value)

\* C2: the second call since the declaration succeeds after the first failed,
\* and its row carries the start value 5
C2_Witness ==
    /\ last.op = "write" /\ last.ok /\ Len(counters) = 1
    /\ hist.ctr[1].calls = 2 /\ hist.ctr[1].rows = 1
    /\ LastRecord[Offset(fields, TheCounter) + 1] = "5"

\* C9: every counter's current value is start + n*step after the n rows written
\* since its declaration, and the row of a successful write carries, for every
\* counter, start + (n-1)*step: start in the first row after its declaration.
C9_CounterAdvance ==
    /\ \A i \in 1..Len(counters) :
          counters[i].current = hist.ctr[i].start + hist.ctr[i].rows * counters[i].step
    /\ (last.op = "write" /\ last.ok) =>
          \A f \in 1..Len(fields) :
              fields[f].kind = "_Counter" =>
                  LastRecord[Offset(fields, f) + 1]
                      = IntToStr(hist.ctr[fields[f].ref].start
                                 + (hist.ctr[fields[f].ref].rows - 1)
                                   * counters[fields[f].ref].step)

\* C9: two counters of different steps around an aggregator, the second
\* declared after a row was written
C9_Witness ==
    /\ last.op = "write" /\ last.ok
    /\ [i \in 1..Len(fields) |-> fields[i].kind] = <<"_Counter", "_Aggregator", "_Counter">>
    /\ counters[1].step # counters[2].step
    /\ hist.ctr[1].rows = 2 /\ hist.ctr[2].rows = 1

C4_SinkOnWrite ==
    [][last'.op = "write" =>
          IF last'.ok
          THEN Len(sink') = Len(sink) + 1 /\ SubSeq(sink', 1, Len(sink)) = sink
          ELSE sink' = sink]_vars

\* C4: the third of three columns failed, with records in the sink
C4_Witness ==
    /\ last.op = "write" /\ ~last.ok /\ last.at = 3 /\ sink # <<>>

\* the label of the j-th display string of a column
Label(field, j) ==
    IF field.kind = "_MultiColumn"
    THEN field.header \o IntToStr(field.range_[1] + j - 1)
    ELSE field.header

\* C5: write_header emits, column after column, one label per column and one
\* label per index of a multi-column's range, and every record in the sink,
\* header or row, has as many fields as the registry has labels.
C5_HeaderAndRows ==
    /\ last.op = "write_header" =>
          \A i \in 1..Len(fields) : \A j \in 1..Width(fields[i]) :
              LastRecord[Offset(fields, i) + j] = Label(fields[i], j)
    /\ \A k \in 1..Len(sink) : Len(sink[k]) = Offset(fields, Len(fields) + 1)

\* C5: a header and a row over three columns, one of them a multi-column of
\* two labels
C5_Witness ==
    /\ last.op = "write" /\ last.ok /\ hist.hdr.n = 1 /\ Len(fields) = 3
    /\ \E i \in 1..3 : Width(fields[i]) = 2
    /\ Len(sink) = 2 /\ Len(sink[1]) = 4 /\ Len(sink[2]) = 4

\* C10: a write call in which a column fails leaves the counters and the
\* registry as they were.
C10_FailedWriteFrame ==
    [][(last'.op = "write" /\ ~last'.ok) => (counters' = counters /\ fields' = fields)]_vars

\* C10: a call failed after a counter that earlier rows had advanced was evaluated
C10_Witness ==
    /\ last.op = "write" /\ ~last.ok /\ last.at > 1
    /\ fields[1].kind = "_Counter" /\ hist.ctr[1].rows = 1
    /\ counters[1].current = hist.ctr[1].start + counters[1].step

\* the Writer after write was called on each of the first n items in turn
RECURSIVE After(_, _, _)
After(w, items, n) ==
    IF n = 0 THEN w ELSE write(After(w, items, n - 1), items[n]).w

\* the first item on which such a loop raises (0: none)
FirstFailure(w, items) ==
    LET bad == { n \in 1..Len(items) : ~write(After(w, items, n - 1), items[n]).ok }
    IN  IF bad = {} THEN 0 ELSE CHOOSE n \in bad : \A m \in bad : n <= m

\* C6: write_all(items) leaves the Writer (rows and counters) as the loop of
\* write calls leaves it when it stops at the first item that fails, raises
\* exactly when that loop raises, and writes no row for that item or a later one.
C6_WriteAllIsLoop ==
    [][last'.op = "write_all" =>
          LET n == FirstFailure(Writer, last'.items)
              done == IF n = 0 THEN Len(last'.items) ELSE n - 1
          IN  /\ Writer' = After(Writer, last'.items, done)
              /\ last'.ok = (n = 0)
              /\ last'.left = Len(last'.items) - done
              /\ Len(sink') = Len(sink) + done]_vars

\* C6: write_all([item 2, item 1]) failed on item 2 and wrote no row for
\* item 1, on a Writer that had written a row
C6_Witness ==
    /\ last.op = "write_all" /\ ~last.ok /\ last.items = <<2, 1>> /\ last.left = 2
    /\ hist.calls = 2 /\ sink # <<>> /\ write(Writer, 1).ok

\* C7: a write_header call is never refused, and it emits the record the first
\* write_header call since the last declaration emitted.
C7_HeaderIdempotent ==
    last.op = "write_header" => (last.ok /\ LastRecord = hist.hdr.row)

\* C7: the second header since the last declaration, a row written between
C7_Witness ==
    /\ last.op = "write_header" /\ hist.hdr.n = 2 /\ Len(sink) = 3
    /\ sink[1] = sink[3] /\ sink[2] # sink[1] /\ Len(counters) = 1

(***************************************************************************)
(* The id-based variant: src/src/list2csv.py.  The field objects live in   *)
(* heap and are named by their index: idFields is self._fields, and        *)
(* toAggregate is self._to_aggregate (a defaultdict: every id has a list,  *)
(* empty until a field is declared with the id).  An aggregator keeps the  *)
(* list of its id itself, not a copy of it.                                *)
(***************************************************************************)

\* the id-based Writer, with the objects its fields refer to
IdWriter ==
    [heap |-> heap, fields |-> idFields, to_aggregate |-> toAggregate,
     row_count |-> rowCount, sink |-> idSink]

IdInstall(st) ==
    /\ heap' = st.heap
    /\ idFields' = st.fields
    /\ toAggregate' = st.to_aggregate
    /\ rowCount' = st.row_count
    /\ idSink' = st.sink

\* _Field.normalise_evaluator
normalise_evaluator(evaluator) ==
    IF evaluator.isStr THEN [call |-> "attrgetter", arg |-> evaluator.name]
    ELSE [call |-> evaluator.name, arg |-> ""]

\* evaluator(x).  "tuple" is add_multi's lambda item: tuple(evaluator(item))
\* over the attribute arg (the attributes given to add_multi hold tuples).
IdCall(evaluator, x) ==
    CASE evaluator.call = "attrgetter" -> AttrGetter(evaluator.arg, x)
      [] evaluator.call = "tuple" ->
            IF ~AttrGetter(evaluator.arg, x).ok THEN AttrGetter(evaluator.arg, x)
            ELSE IF AttrGetter(evaluator.arg, x).v.t = "tuple"
            THEN AttrGetter(evaluator.arg, x)
            ELSE Raise("TypeError")
      [] OTHER -> Raise("TypeError")

\* _Field.__init__, and the fields the subclasses add (each read only for its
\* own kind)
NewField(kind, h, data_format) ==
    [kind |-> kind, header |-> h, data_format |-> data_format,
     evaluator |-> [call |-> "", arg |-> ""], to_aggregate |-> "",
     start |-> 0, step |-> 0, seq_field |-> 0, idx |-> 0,
     last_row |-> -1, last_value |-> NoneV]

NewSimple(h, evaluator, data_format) ==
    [NewField("_Simple", h, data_format) EXCEPT !.evaluator = evaluator]

NewIdAggregator(h, evaluator, data_format, to_aggregate) ==
    [NewField("_Aggregator", h, data_format)
        EXCEPT !.evaluator = evaluator, !.to_aggregate = to_aggregate]

NewIdCounter(h, start, step) ==
    [NewField("_Counter", h, "{}") EXCEPT !.start = start, !.step = step]

NewMulti(h, seq_field, idx, data_format) ==
    [NewField("_Multi", h, data_format) EXCEPT !.seq_field = seq_field, !.idx = idx]

\* the outcome of an evaluation that left the Writer as st
Done(st, r) == [st |-> st, ok |-> r.ok, err |-> r.err, v |-> IF r.ok THEN r.v ELSE NoneV]

RECURSIVE IdFieldEval(_, _, _, _)
RECURSIVE IdAggregatorEval(_, _, _, _, _, _)

\* _Aggregator._eval, sum taking the next value r from the generator
IdSumNext(refs, item, rn, i, acc, r) ==
    IF ~r.ok THEN r
    ELSE IF r.v.t # "int" THEN Done(r.st, Raise("TypeError"))
    ELSE IdAggregatorEval(r.st, refs, item, rn, i + 1, acc + r.v.n)

\* _Aggregator._eval with sum as the evaluator: the fields of the list are
\* evaluated one by one as sum asks for their values (from the i-th on)
IdAggregatorEval(st, refs, item, rn, i, acc) ==
    IF i > Len(refs) THEN Done(st, Ok(IntV(acc)))
    ELSE IdSumNext(refs, item, rn, i, acc, IdFieldEval(st, refs[i], item, rn))

\* _Multi._eval, seq being the outcome of self.seq_field.eval(item, row_number)
IdMultiIndex(idx, seq) ==
    IF ~seq.ok THEN seq
    ELSE IF idx + 1 > Len(seq.v.q) THEN Done(seq.st, Raise("IndexError"))
    ELSE Done(seq.st, Ok(seq.v.q[idx + 1]))

\* field._eval(item, row_number)
IdEval(st, ref, item, rn) ==
    CASE st.heap[ref].kind = "_Simple" -> Done(st, IdCall(st.heap[ref].evaluator, item))
      [] st.heap[ref].kind = "_Counter" ->
            Done(st, Ok(IntV(st.heap[ref].start + rn * st.heap[ref].step)))
      [] st.heap[ref].kind = "_Multi" ->
            IdMultiIndex(st.heap[ref].idx,
                         IdFieldEval(st, st.heap[ref].seq_field, item, rn))
      [] OTHER ->
            IdAggregatorEval(st, st.to_aggregate[st.heap[ref].to_aggregate],
                             item, rn, 1, 0)

\* _Field.eval, line 157: the value _eval returned is kept as last_value
IdKeep(ref, r) ==
    IF r.ok THEN [r EXCEPT !.st.heap[ref].last_value = r.v] ELSE r

\* _Field.eval
IdFieldEval(st, ref, item, rn) ==
    IF rn # st.heap[ref].last_row
    THEN IdKeep(ref, IdEval([st EXCEPT !.heap[ref].last_row = rn], ref, item, rn))
    ELSE Done(st, Ok(st.heap[ref].last_value))

RECURSIVE id_row_loop(_, _, _, _)

\* Writer.write_row, lines 129-130: the value is formatted and appended
id_row_format(st, item, i, row, out) ==
    IF ~out.ok THEN [st |-> st, ok |-> FALSE, err |-> out.err, row |-> row]
    ELSE id_row_loop(st, item, i + 1, Append(row, out.v))

\* Writer.write_row, line 128: field.eval returned or raised with outcome r
id_row_value(item, i, row, r) ==
    IF ~r.ok THEN [st |-> r.st, ok |-> FALSE, err |-> r.err, row |-> row]
    ELSE id_row_format(r.st, item, i, row,
                       StrFormat(r.st.heap[r.st.fields[i]].data_format, r.v))

\* Writer.write_row, the loop over self._fields from field i on
id_row_loop(st, item, i, row) ==
    IF i > Len(st.fields) THEN [st |-> st, ok |-> TRUE, err |-> "", row |-> row]
    ELSE id_row_value(item, i, row, IdFieldEval(st, st.fields[i], item, st.row_count))

\* Writer.write_row, lines 131-132, or the exception leaving the method
id_row_end(r) ==
    IF r.ok
    THEN [st |-> [r.st EXCEPT !.sink = Append(@, r.row), !.row_count = @ + 1],
          ok |-> TRUE, err |-> ""]
    ELSE [st |-> r.st, ok |-> FALSE, err |-> r.err]

\* Writer.write_row
write_row(st, item) == id_row_end(id_row_loop(st, item, 1, <<>>))

\* Writer._add_to_aggregate, the new field being the last of the heap
add_to_aggregate(st, aggregate_ids) ==
    [st EXCEPT !.to_aggregate =
        [id \in DOMAIN @ |-> IF id \in aggregate_ids THEN Append(@[id], Len(st.heap))
                             ELSE @[id]]]

\* self._fields.append(field) for a new field object
IdAppend(st, field) ==
    [st EXCEPT !.heap = Append(@, field), !.fields = Append(@, Len(st.heap) + 1)]

\* Writer.add_column
id_add_column(st, h, evaluator, data_format, aggregate_ids) ==
    add_to_aggregate(IdAppend(st, NewSimple(h, normalise_evaluator(evaluator), data_format)),
                     aggregate_ids)

\* Writer.add_aggregator
id_add_aggregator(st, aggregate_id, h, aggregate_evaluator, data_format, aggregate_ids) ==
    add_to_aggregate(
        IdAppend(st, NewIdAggregator(h, normalise_evaluator(aggregate_evaluator),
                                     data_format, aggregate_id)),
        aggregate_ids)

\* Writer.add_counter
id_add_counter(st, h, start, step, aggregate_ids) ==
    add_to_aggregate(IdAppend(st, NewIdCounter(h, start, step)), aggregate_ids)

\* Writer.add_multi, lines 105-109: the columns from index i on, seq being the
\* sequence field they share
RECURSIVE id_add_multi_loop(_, _, _, _, _, _, _)
id_add_multi_loop(st, header_template, seq, i, num_items, data_format, aggregate_ids) ==
    IF i > num_items THEN st
    ELSE id_add_multi_loop(
            add_to_aggregate(
                IdAppend(st, NewMulti(HeaderFormat(header_template, i), seq, i - 1,
                                      data_format)),
                aggregate_ids),
            header_template, seq, i + 1, num_items, data_format, aggregate_ids)

\* Writer.add_multi: the sequence field is an object of its own, in no list
id_add_multi(st, header_template, evaluator, num_items, data_format, aggregate_ids) ==
    id_add_multi_loop(
        [st EXCEPT !.heap =
            Append(@, NewSimple("", [call |-> "tuple",
                                     arg |-> normalise_evaluator(evaluator).arg], "{}"))],
        header_template, Len(st.heap) + 1, 1, num_items, data_format, aggregate_ids)

IdDeclared(st, op) ==
    /\ Len(st.fields) <= MaxIdCols
    /\ IdInstall(st)
    /\ idLast' = [idLast EXCEPT !.op = op, !.item = 0, !.ok = TRUE, !.err = ""]
    /\ UNCHANGED pkgVars

IdAddColumn ==
    \/ IdDeclared(id_add_column(IdWriter, "Score", [isStr |-> TRUE, name |-> "score"],
                                "{}", {"g"}), "add_column")
    \/ IdDeclared(id_add_column(IdWriter, "Opt", [isStr |-> TRUE, name |-> "opt"],
                                "{}", {}), "add_column")

IdAddAggregator ==
    IdDeclared(id_add_aggregator(IdWriter, "g", "Total", [isStr |-> FALSE, name |-> "sum"],
                                 "{}", {}), "add_aggregator")

IdAddCounter ==
    IdDeclared(id_add_counter(IdWriter, "ID", 1, 1, {}), "add_counter")

IdAddMulti ==
    IdDeclared(id_add_multi(IdWriter, "col", [isStr |-> TRUE, name |-> "marks"], 2,
                            "{}", {"g"}), "add_multi")

\* write_row(item) returned or raised with outcome r
IdWrote(item, r) ==
    /\ IdInstall(r.st)
    /\ idLast' = [op |-> "write_row", item |-> item, ok |-> r.ok, err |-> r.err,
                  calls |-> idLast.calls + 1]

IdWriteRow ==
    /\ idLast.calls < MaxIdCalls
    /\ \E item \in Items : IdWrote(item, write_row(IdWriter, item))
    /\ UNCHANGED pkgVars

NextId ==
    \/ IdAddColumn
    \/ IdAddAggregator
    \/ IdAddCounter
    \/ IdAddMulti
    \/ IdWriteRow

SpecId == Init /\ [][NextId]_vars

(***************************************************************************)
(* Property of the id-based variant.                                       *)
(***************************************************************************)

\* the value of a field for an item in row rn, computed from the item alone
RECURSIVE Fresh(_, _, _, _)
FreshSum(st, refs, item, rn) ==
    IF \A i \in 1..Len(refs) : Fresh(st, refs[i], item, rn).ok
    THEN PySum([i \in 1..Len(refs) |-> Fresh(st, refs[i], item, rn).v])
    ELSE Raise("Error")

FreshIndex(idx, seq) ==
    IF ~seq.ok THEN seq
    ELSE IF idx + 1 > Len(seq.v.q) THEN Raise("IndexError")
    ELSE Ok(seq.v.q[idx + 1])

Fresh(st, ref, item, rn) ==
    CASE st.heap[ref].kind = "_Simple" -> IdCall(st.heap[ref].evaluator, item)
      [] st.heap[ref].kind = "_Counter" ->
            Ok(IntV(st.heap[ref].start + rn * st.heap[ref].step))
      [] st.heap[ref].kind = "_Multi" ->
            FreshIndex(st.heap[ref].idx, Fresh(st, st.heap[ref].seq_field, item, rn))
      [] OTHER -> FreshSum(st, st.to_aggregate[st.heap[ref].to_aggregate], item, rn)

\* C8 as stated: every value in the row a successful write_row(item) writes is
\* the column's evaluator applied to that item (for an aggregator: to the
\* values its aggregated columns yield for that item), whatever calls came
\* before.
C8_RowFromItem ==
    (idLast.op = "write_row" /\ idLast.ok) =>
        \A i \in 1..Len(idFields) :
            LET v == Fresh(IdWriter, idFields[i], idLast.item, rowCount - 1)
            IN  /\ v.ok
                /\ idSink[Len(idSink)][i]
                      = StrFormat(heap[idFields[i]].data_format, v.v).v

====
